---- MODULE Spec2Model ----
(***************************************************************************)
(* Model of the breast_risk_site predictor: the model registry (lazy       *)
(* singletons), the preprocessing of risk factors, the ensemble and the    *)
(* two views that run one inference per request.                           *)
(*                                                                         *)
(* Numbers.  Python floats are modelled as exact integers in fixed units:  *)
(*   - a risk-factor value v is the integer v * Ticks (Ticks per unit);    *)
(*   - a weight w is the integer w * WOne (hundredths);                    *)
(*   - a probability p is the integer p * POne;                            *)
(*   - p_ensemble, a sum of weight * probability, is in units of           *)
(*     1 / (WOne * POne).                                                  *)
(* An optional value (Python None or a value) is the empty sequence or a   *)
(* one-element sequence.                                                   *)
(***************************************************************************)
EXTENDS Integers, Sequences, FiniteSets, TLC

VARIABLES
    ENABLE_FAKE_MODELS,  \* settings.ENABLE_FAKE_MODELS
    model_dir,           \* contents of settings.MODEL_DIR: file name -> status
    IMG_WEIGHT,          \* settings.IMG_WEIGHT
    FACT_WEIGHT,         \* settings.FACT_WEIGHT
    _image_model,        \* ModelRegistry._image_model
    _risk_model,         \* ModelRegistry._risk_model
    built,               \* history: constructions assigned so far, per capability
    op,                  \* the last operation run to completion
    args,                \* its inputs
    trace,               \* the sub-steps it ran, in order
    result,              \* what it returned or raised
    pc,                  \* per thread: position inside a resolver call
    ret                  \* per thread: the handle its last call returned

vars == <<ENABLE_FAKE_MODELS, model_dir, IMG_WEIGHT, FACT_WEIGHT, _image_model,
          _risk_model, built, op, args, trace, result, pc, ret>>

settingsVars == <<ENABLE_FAKE_MODELS, model_dir, IMG_WEIGHT, FACT_WEIGHT>>
registryVars == <<_image_model, _risk_model, built>>
callVars == <<op, args, trace, result>>
threadVars == <<pc, ret>>

----------------------------------------------------------------------------
(* Units and bounds *)

\* settings.py: os.getenv("ENSEMBLE_IMG_WEIGHT", "0.7"), in hundredths
DefaultImgWeight == 70
\* settings.py: os.getenv("ENSEMBLE_FACT_WEIGHT", "0.3"), in hundredths
DefaultFactWeight == 30
\* 1.0 as a weight
WOne == DefaultImgWeight + DefaultFactWeight

\* spacing of the float32-representable values, in ticks: np.float32 keeps
\* fewer digits than the Python float it is built from
F32Step == 2
\* ticks per unit of a Python float: twice as fine as float32
Ticks == 2 * F32Step
\* 1.0 as a probability: 0.01 * (one tick) is one probability unit
POne == 100 * Ticks

\* threads that may call the registry concurrently
NumThreads == 2
\* weights are drawn from -1.0 .. MaxWeightTenths / 10 in steps of 0.1
MaxWeightTenths == 11
\* probabilities are drawn from -0.1 .. MaxProbTenths / 10 in steps of 0.1
MaxProbTenths == 11
\* the tensors given to the synthetic models have TensorLen elements
TensorLen == 2
\* the largest finite floating-point value, in units; a sum beyond it
\* overflows to infinity
FloatMaxUnits == 1000

Threads == 1..NumThreads

----------------------------------------------------------------------------
(* Optional values *)

NoneV == <<>>
Some(v) == <<v>>
IsNone(o) == o = <<>>
\* Python's `o or 0.0` for an optional number: None and 0 both give 0.0
OrZero(o) == IF IsNone(o) \/ o[1] = 0 THEN 0 ELSE o[1]

----------------------------------------------------------------------------
(* Model registry *)

\* ModelRegistry._IMAGE_WEIGHT_CANDIDATES, in order
IMAGE_WEIGHT_CANDIDATES == <<"image_model.keras", "image_model.h5", "image_model.weights.h5">>
\* ModelRegistry._RISK_MODEL_FILENAME
RISK_MODEL_FILENAME == "risk_model.joblib"

FileNames == {IMAGE_WEIGHT_CANDIDATES[i] : i \in 1..Len(IMAGE_WEIGHT_CANDIDATES)}
                 \cup {RISK_MODEL_FILENAME}
\* "ok": a file the loader reads; "corrupt": a file that exists and that
\* load_weights / joblib.load rejects with an exception
FileStatus == {"absent", "ok", "corrupt"}

\* Path.exists()
Exists(dir, name) == dir[name] # "absent"

\* The unset handle (Python None) and a constructed instance.  id is the
\* object's identity: every construction yields a new one.
None == [id |-> 0, kind |-> "None", weights |-> "none"]
Instance(id, kind, weights) == [id |-> id, kind |-> kind, weights |-> weights]

\* identity of the next object constructed
NextId(b) == b.image + b.risk + 1

\* What a call gives back: a returned handle or a raised exception, and the
\* registry it leaves.
Returned(h, reg) == [ok |-> TRUE, exc |-> "none", ret |-> h, reg |-> reg]
Raised(e, reg) == [ok |-> FALSE, exc |-> e, ret |-> None, reg |-> reg]

\* next((model_dir / name for name in candidates if exists), None):
\* the index of the first candidate present, 0 when there is none
WeightsPath(dir) ==
    LET present == {i \in 1..Len(IMAGE_WEIGHT_CANDIDATES) :
                        Exists(dir, IMAGE_WEIGHT_CANDIDATES[i])}
    IN  IF present = {} THEN 0
        ELSE CHOOSE i \in present : \A j \in present : i <= j

\* image_model, line 69: `if cls._image_model is not None`
ImageModelCachedNever(reg) == FALSE
ImageModelCached(reg) == reg.image # None

\* image_model, lines 72-126: construct, assign, return
ImageModelConstructStrict(reg, fake, dir) ==
    LET m == Instance(NextId(reg.built),
                      IF fake THEN "FakeImageModel" ELSE "_WrapKerasSoftmax",
                      IF fake THEN "none" ELSE "loaded")
    IN  IF ~fake /\ WeightsPath(dir) = 0
        THEN Raised("FileNotFoundError", reg)
        ELSE Returned(m, [reg EXCEPT !.image = m, !.built.image = @ + 1])
ImageModelConstruct(reg, fake, dir) ==
    LET id == NextId(reg.built)
        assign(inst) == [reg EXCEPT !.image = inst, !.built.image = @ + 1]
        wp == WeightsPath(dir)
    IN  IF fake
        THEN LET m == Instance(id, "FakeImageModel", "none")
             IN  Returned(m, assign(m))
        ELSE IF wp = 0
        THEN \* no candidate file: the freshly initialised head is kept
             LET m == Instance(id, "_WrapKerasSoftmax", "fresh_head")
             IN  Returned(m, assign(m))
        ELSE IF dir[IMAGE_WEIGHT_CANDIDATES[wp]] = "corrupt"
        THEN \* keras_model.load_weights raises; nothing is assigned
             Raised("load_weights_error", reg)
        ELSE LET m == Instance(id, "_WrapKerasSoftmax", IMAGE_WEIGHT_CANDIDATES[wp])
             IN  Returned(m, assign(m))

\* ModelRegistry.image_model()
ImageModel(reg, fake, dir) ==
    IF ImageModelCached(reg)
    THEN Returned(reg.image, reg)
    ELSE ImageModelConstruct(reg, fake, dir)

\* risk_model, line 131: `if cls._risk_model is not None`
RiskModelCachedNever(reg) == FALSE
RiskModelCached(reg) == reg.risk # None

\* risk_model, lines 134-151: construct, assign, return
RiskModelConstructSilent(reg, fake, dir) ==
    LET m == Instance(NextId(reg.built), "_WrapSklearnBinary", "none")
    IN  Returned(m, [reg EXCEPT !.risk = m, !.built.risk = @ + 1])
RiskModelConstructCachesFailure(reg, fake, dir) ==
    LET id == NextId(reg.built)
        assign(inst) == [reg EXCEPT !.risk = inst, !.built.risk = @ + 1]
    IN  IF fake
        THEN LET m == Instance(id, "FakeRiskModel", "none")
             IN  Returned(m, assign(m))
        ELSE IF ~Exists(dir, RISK_MODEL_FILENAME)
        THEN Raised("FileNotFoundError",
                    assign(Instance(id, "_WrapSklearnBinary", "none")))
        ELSE IF dir[RISK_MODEL_FILENAME] = "corrupt"
        THEN Raised("joblib_load_error", reg)
        ELSE LET m == Instance(id, "_WrapSklearnBinary", RISK_MODEL_FILENAME)
             IN  Returned(m, assign(m))
RiskModelConstruct(reg, fake, dir) ==
    LET id == NextId(reg.built)
        assign(inst) == [reg EXCEPT !.risk = inst, !.built.risk = @ + 1]
    IN  IF fake
        THEN LET m == Instance(id, "FakeRiskModel", "none")
             IN  Returned(m, assign(m))
        ELSE IF ~Exists(dir, RISK_MODEL_FILENAME)
        THEN Raised("FileNotFoundError", reg)
        ELSE IF dir[RISK_MODEL_FILENAME] = "corrupt"
        THEN \* joblib.load raises; nothing is assigned
             Raised("joblib_load_error", reg)
        ELSE LET m == Instance(id, "_WrapSklearnBinary", RISK_MODEL_FILENAME)
             IN  Returned(m, assign(m))

\* ModelRegistry.risk_model()
RiskModel(reg, fake, dir) ==
    IF RiskModelCached(reg)
    THEN Returned(reg.risk, reg)
    ELSE RiskModelConstruct(reg, fake, dir)

\* the registry as one value
Registry == [image |-> _image_model, risk |-> _risk_model, built |-> built]

SetRegistry(reg) ==
    /\ _image_model' = reg.image
    /\ _risk_model' = reg.risk
    /\ built' = reg.built

----------------------------------------------------------------------------
(* Probability models *)

\* What the trained model underneath an adapter does with an input is not
\* in this repository: it is an input of the call, either a probability or
\* an exception (a shape the adapter cannot index, a feature count the
\* classifier rejects).
TrainedOutcomes == [ok : {TRUE}, p : {POne \div 4, POne}]
                       \cup {[ok |-> FALSE, p |-> 0]}

\* FakeImageModel.predict_proba: float(np.mean(x) % 100.0) / 100.0, on the
\* mean of the tensor in ticks
FakeImagePredict(mean) == mean % POne

\* FakeRiskModel.predict_proba: min(0.99, 0.2 + 0.01 * (np.sum(x) % 50))
SumSeq(s) ==
    LET sum[i \in 0..Len(s)] == IF i = 0 THEN 0 ELSE sum[i - 1] + s[i]
    IN  sum[Len(s)]
Min(a, b) == IF a <= b THEN a ELSE b
FakeRiskPredict(x) == Min(99 * Ticks, 20 * Ticks + (SumSeq(x) % (50 * Ticks)))

\* model.predict_proba(x) for the instance a resolver returned
PredictProba(model, fakeValue, outcome) ==
    IF model.kind \in {"FakeImageModel", "FakeRiskModel"}
    THEN [ok |-> TRUE, p |-> fakeValue]
    ELSE outcome

----------------------------------------------------------------------------
(* Preprocessing *)

\* np.array([...], dtype=np.float32): the nearest float32-representable
\* value, ties to the even one
ToFloat32Exact(x) == x
ToFloat32(x) ==
    LET q == x \div F32Step
        r == x % F32Step
    IN  IF 2 * r < F32Step THEN q * F32Step
        ELSE IF 2 * r > F32Step THEN (q + 1) * F32Step
        ELSE IF q % 2 = 0 THEN q * F32Step ELSE (q + 1) * F32Step

\* float(n) for an int field: n units
Units(n) == n * Ticks

\* the fields of the vector, in order
FeatureOrder ==
    <<"age", "first_degree_relative", "onset_age_relative", "brca1", "brca2",
      "menarche_age", "menopause_age", "parity", "hrt", "bmi",
      "alcohol_units_per_week", "smoking_status", "activity_hours_per_week">>

\* the optional float fields (Optional[float] = None in RiskFactors)
OptionalFields ==
    {"onset_age_relative", "menarche_age", "menopause_age", "parity", "bmi",
     "alcohol_units_per_week", "activity_hours_per_week"}
\* the int fields (flags and categorical codes)
IntFields == {"first_degree_relative", "brca1", "brca2", "hrt", "smoking_status"}

\* risk_factors_to_vector(rf): the row of the (1, 13) float32 array
risk_factors_to_vector_swapped(rf) ==
    <<ToFloat32(rf.age),
      ToFloat32(Units(rf.first_degree_relative)),
      ToFloat32(OrZero(rf.onset_age_relative)),
      ToFloat32(Units(rf.brca1)),
      ToFloat32(Units(rf.brca2)),
      ToFloat32(OrZero(rf.menarche_age)),
      ToFloat32(OrZero(rf.menopause_age)),
      ToFloat32(OrZero(rf.parity)),
      ToFloat32(OrZero(rf.bmi)),
      ToFloat32(Units(rf.hrt)),
      ToFloat32(OrZero(rf.alcohol_units_per_week)),
      ToFloat32(Units(rf.smoking_status)),
      ToFloat32(OrZero(rf.activity_hours_per_week))>>
risk_factors_to_vector(rf) ==
    <<ToFloat32(rf.age),
      ToFloat32(Units(rf.first_degree_relative)),
      ToFloat32(OrZero(rf.onset_age_relative)),
      ToFloat32(Units(rf.brca1)),
      ToFloat32(Units(rf.brca2)),
      ToFloat32(OrZero(rf.menarche_age)),
      ToFloat32(OrZero(rf.menopause_age)),
      ToFloat32(OrZero(rf.parity)),
      ToFloat32(Units(rf.hrt)),
      ToFloat32(OrZero(rf.bmi)),
      ToFloat32(OrZero(rf.alcohol_units_per_week)),
      ToFloat32(Units(rf.smoking_status)),
      ToFloat32(OrZero(rf.activity_hours_per_week))>>

\* load_image_to_array: Image.open(...).convert("RGB").resize(IMG_SIZE)
load_image_to_array(image_bytes) ==
    IF image_bytes.kind = "ok"
    THEN [ok |-> TRUE, exc |-> "none", mean |-> image_bytes.mean]
    ELSE [ok |-> FALSE, exc |-> "image_decode_error", mean |-> 0]

----------------------------------------------------------------------------
(* Ensemble *)

NoResult == [p_img |-> 0, p_factors |-> 0, p_ensemble |-> 0,
             img_weight |-> 0, factors_weight |-> 0]

\* ensemble(p_img, p_factors), with settings.IMG_WEIGHT and FACT_WEIGHT
ensembleNormalized(p_img, p_factors, w_img, w_fac) ==
    LET total == IF w_img + w_fac = 0 THEN WOne ELSE w_img + w_fac
        n_img == (w_img * WOne) \div total
        n_fac == WOne - n_img
    IN  [p_img |-> p_img,
         p_factors |-> p_factors,
         p_ensemble |-> n_img * p_img + n_fac * p_factors,
         img_weight |-> n_img,
         factors_weight |-> n_fac]
ensembleDefaultOnZero(p_img, p_factors, w_img, w_fac) ==
    LET d_img == IF w_img = 0 THEN DefaultImgWeight ELSE w_img
        d_fac == IF w_fac = 0 THEN DefaultFactWeight ELSE w_fac
    IN  [p_img |-> p_img,
         p_factors |-> p_factors,
         p_ensemble |-> d_img * p_img + d_fac * p_factors,
         img_weight |-> d_img,
         factors_weight |-> d_fac]
ensembleClampNegative(p_img, p_factors, w_img, w_fac) ==
    LET c_img == IF w_img < 0 THEN 0 ELSE w_img
        c_fac == IF w_fac < 0 THEN 0 ELSE w_fac
    IN  [p_img |-> p_img,
         p_factors |-> p_factors,
         p_ensemble |-> c_img * p_img + c_fac * p_factors,
         img_weight |-> c_img,
         factors_weight |-> c_fac]
ensemble(p_img, p_factors, w_img, w_fac) ==
    [p_img |-> p_img,
     p_factors |-> p_factors,
     p_ensemble |-> w_img * p_img + w_fac * p_factors,
     img_weight |-> w_img,
     factors_weight |-> w_fac]


----------------------------------------------------------------------------
(* Floating-point values, as numpy computes with them: finite values (in *)
(* ticks) up to FloatMax, the two infinities and nan.                     *)

FloatMax == FloatMaxUnits * Ticks
Fin(v) == [kind |-> "finite", v |-> v]
Inf(sign) == [kind |-> "inf", v |-> sign]
NaN == [kind |-> "nan", v |-> 0]

\* the result of an operation whose exact value is v: beyond the largest
\* finite value it is an infinity
FRound(v) ==
    IF v > FloatMax THEN Inf(1)
    ELSE IF v < 0 - FloatMax THEN Inf(0 - 1)
    ELSE Fin(v)

\* a + b
FAdd(a, b) ==
    IF a.kind = "nan" \/ b.kind = "nan" THEN NaN
    ELSE IF a.kind = "inf" /\ b.kind = "inf" THEN (IF a.v = b.v THEN a ELSE NaN)
    ELSE IF a.kind = "inf" THEN a
    ELSE IF b.kind = "inf" THEN b
    ELSE FRound(a.v + b.v)

\* np.sum(x): the elements added up from the first
RECURSIVE FSumFrom(_, _, _)
FSumFrom(x, i, acc) ==
    IF i > Len(x) THEN acc ELSE FSumFrom(x, i + 1, FAdd(acc, Fin(x[i])))
FSum(x) == FSumFrom(x, 1, Fin(0))

\* np.mean(x): the sum divided by the number of elements (rounded down to
\* the tick)
FMean(x) ==
    LET s == FSum(x)
    IN  IF s.kind = "finite" THEN Fin(s.v \div Len(x)) ELSE s

\* FakeImageModel.predict_proba on a tensor: float(np.mean(x) % 100.0) /
\* 100.0; the remainder of an infinity or of nan is nan, and so is its
\* hundredth
FakeImageModelPredictProba(x) ==
    LET mean == FMean(x)
    IN  IF mean.kind = "finite" THEN Fin(FakeImagePredict(mean.v)) ELSE NaN

\* FakeRiskModel.predict_proba on a vector: min(0.99, 0.2 + 0.01 *
\* float(np.sum(x) % 50)); when the sum is not finite the second argument
\* is nan, `nan < 0.99` is false and min keeps its first argument
FakeRiskModelPredictProba(x) ==
    LET s == FSum(x)
    IN  IF s.kind = "finite" THEN Fin(FakeRiskPredict(x)) ELSE Fin(99 * Ticks)

----------------------------------------------------------------------------
(* Forms *)

\* schemas.HRT_CHOICES and SMOKE_CHOICES (the codes), and the choices of
\* first_degree_relative
HRT_CHOICES == {0, 1, 2}
SMOKE_CHOICES == {0, 1, 2}
FDR_CHOICES == {1, 0}

\* forms.FloatField(required, min_value, max_value): whether a submitted
\* value is rejected
FloatFieldError(v, required, lo, hi) ==
    IF IsNone(v) THEN required
    ELSE v[1] < lo * Ticks \/ v[1] > hi * Ticks

\* forms.ChoiceField(choices): required, and the value must be a choice
ChoiceFieldError(v, choices) == IsNone(v) \/ v[1] \notin choices

\* the fields of RiskFactorsForm whose own validation rejects the data
FieldErrors(data) ==
    {f \in DOMAIN data :
        CASE f = "age" -> FloatFieldError(data[f], TRUE, 0, 120)
          [] f = "first_degree_relative" -> ChoiceFieldError(data[f], FDR_CHOICES)
          [] f = "onset_age_relative" -> FloatFieldError(data[f], FALSE, 0, 120)
          [] f = "menarche_age" -> FloatFieldError(data[f], FALSE, 8, 25)
          [] f = "menopause_age" -> FloatFieldError(data[f], FALSE, 30, 70)
          [] f = "parity" -> FloatFieldError(data[f], FALSE, 0, 20)
          [] f = "hrt" -> ChoiceFieldError(data[f], HRT_CHOICES)
          [] f = "bmi" -> FloatFieldError(data[f], FALSE, 8, 70)
          [] f = "alcohol_units_per_week" -> FloatFieldError(data[f], FALSE, 0, 100)
          [] f = "smoking_status" -> ChoiceFieldError(data[f], SMOKE_CHOICES)
          [] f = "activity_hours_per_week" -> FloatFieldError(data[f], FALSE, 0, 168)
          [] OTHER -> FALSE}

\* cleaned_data.get(f): a rejected field is not in cleaned_data
CleanedGet(data, f) == IF f \in FieldErrors(data) THEN NoneV ELSE data[f]

\* RiskFactorsForm.clean: the errors it adds
CleanErrorsNone(data) == {}
CleanErrors(data) ==
    LET got == CleanedGet(data, "first_degree_relative")
        fdr == IF IsNone(got) THEN 0 ELSE got[1]
    IN  IF fdr = 1 /\ IsNone(CleanedGet(data, "onset_age_relative"))
        THEN {"onset_age_relative"}
        ELSE {}

\* form.errors and form.is_valid()
RiskFormErrors(data) == FieldErrors(data) \cup CleanErrors(data)
RiskFormIsValid(data) == RiskFormErrors(data) = {}

\* ImagePredictForm.is_valid(): forms.ImageField needs a file that PIL
\* opens and verifies
ImageFormIsValid(image) == image.kind \in {"ok", "undecodable"}

\* RiskFactorsForm.to_dataclass, on valid data
to_dataclass(data) ==
    [age |-> data.age[1],
     first_degree_relative |-> data.first_degree_relative[1],
     onset_age_relative |-> data.onset_age_relative,
     brca1 |-> IF data.brca1 THEN 1 ELSE 0,
     brca2 |-> IF data.brca2 THEN 1 ELSE 0,
     menarche_age |-> data.menarche_age,
     menopause_age |-> data.menopause_age,
     parity |-> data.parity,
     hrt |-> data.hrt[1],
     bmi |-> data.bmi,
     alcohol_units_per_week |-> data.alcohol_units_per_week,
     smoking_status |-> data.smoking_status[1],
     activity_hours_per_week |-> data.activity_hours_per_week]

----------------------------------------------------------------------------
(* Inference *)

\* what run_image_model / run_factors_model gives back: a probability or
\* the exception of the sub-step that failed, the sub-steps called so far
\* and the registry left behind
RunOk(p, tr, reg) == [ok |-> TRUE, exc |-> "none", p |-> p, trace |-> tr, reg |-> reg]
RunRaised(e, tr, reg) == [ok |-> FALSE, exc |-> e, p |-> 0, trace |-> tr, reg |-> reg]

\* run_image_model(image_bytes)
run_image_model(image_bytes, reg, fake, dir, outcome) ==
    LET arr == load_image_to_array(image_bytes)
        t1 == <<"load_image_to_array">>
        t2 == t1 \o <<"preprocess_image_for_densenet">>
        t3 == t2 \o <<"image_model">>
        t4 == t3 \o <<"image_predict_proba">>
    IN  IF ~arr.ok THEN RunRaised(arr.exc, t1, reg)
        ELSE LET res == ImageModel(reg, fake, dir)
             IN  IF ~res.ok THEN RunRaised(res.exc, t3, res.reg)
                 ELSE LET pr == PredictProba(res.ret, FakeImagePredict(arr.mean), outcome)
                      IN  IF ~pr.ok
                          THEN RunRaised("image_predict_error", t4, res.reg)
                          ELSE RunOk(pr.p, t4, res.reg)

\* run_factors_model(rf)
run_factors_model_late_vector(rf, reg, fake, dir, outcome) ==
    LET x == risk_factors_to_vector(rf)
        t1 == <<"risk_model">>
        t2 == t1 \o <<"risk_predict_proba">>
        t3 == t2 \o <<"risk_factors_to_vector">>
        res == RiskModel(reg, fake, dir)
    IN  IF ~res.ok THEN RunRaised(res.exc, t1, res.reg)
        ELSE LET pr == PredictProba(res.ret, FakeRiskPredict(x), outcome)
             IN  IF ~pr.ok
                 THEN RunRaised("risk_predict_error", t2, res.reg)
                 ELSE RunOk(pr.p, t3, res.reg)
run_factors_model(rf, reg, fake, dir, outcome) ==
    LET x == risk_factors_to_vector(rf)
        t1 == <<"risk_factors_to_vector">>
        t2 == t1 \o <<"risk_model">>
        t3 == t2 \o <<"risk_predict_proba">>
        res == RiskModel(reg, fake, dir)
    IN  IF ~res.ok THEN RunRaised(res.exc, t2, res.reg)
        ELSE LET pr == PredictProba(res.ret, FakeRiskPredict(x), outcome)
             IN  IF ~pr.ok
                 THEN RunRaised("risk_predict_error", t3, res.reg)
                 ELSE RunOk(pr.p, t3, res.reg)


----------------------------------------------------------------------------
(* Views *)

\* what a view gives back: the response (or the exception that leaves the
\* view), the sub-steps called and the registry left behind
Response(status, exc, body, errors) ==
    [status |-> status, exc |-> exc, body |-> body, errors |-> errors]
ViewDone(resp, tr, reg) == [response |-> resp, trace |-> tr, reg |-> reg]

\* PredictView.post lines 58-64 and api_predict lines 87-91: the early
\* return on invalid forms
InvalidResponse(view, image, data) ==
    Response(IF view = "api_predict" THEN "400" ELSE "page_errors", "none", NoResult,
             RiskFormErrors(data)
                 \cup (IF ImageFormIsValid(image) THEN {} ELSE {"image"}))

\* the rest of the view once run_image_model has returned: lines 70-77 of
\* PredictView.post, lines 95-106 of api_predict
AfterImagePartial(view, i, f, w_img, w_fac) ==
    LET e == ensemble(i.p, f.p, w_img, w_fac)
    IN  ViewDone(Response(IF view = "api_predict" THEN "200" ELSE "page_result",
                          "none", e, {}),
                 i.trace \o f.trace \o <<"ensemble">>, f.reg)
AfterImage(view, i, f, w_img, w_fac) ==
    IF ~f.ok
    THEN ViewDone(Response("raised", f.exc, NoResult, {}), i.trace \o f.trace, f.reg)
    ELSE LET e == ensemble(i.p, f.p, w_img, w_fac)
         IN  ViewDone(Response(IF view = "api_predict" THEN "200" ELSE "page_result",
                               "none", e, {}),
                      i.trace \o f.trace \o <<"ensemble">>, f.reg)

\* whether the view returns early: `not (img_form.is_valid() and
\* rf_form.is_valid())`, `not img_form.is_valid() or not rf_form.is_valid()`
FormsRejectedImageOnly(image, data) == ~ImageFormIsValid(image)
FormsRejected(image, data) == ~(ImageFormIsValid(image) /\ RiskFormIsValid(data))

\* PredictView.post and api_predict
View(view, image, data, reg, fake, dir, w_img, w_fac, oimg, ofac) ==
    IF FormsRejected(image, data)
    THEN ViewDone(InvalidResponse(view, image, data), <<>>, reg)
    ELSE LET i == run_image_model(image, reg, fake, dir, oimg)
         IN  IF ~i.ok
             THEN ViewDone(Response("raised", i.exc, NoResult, {}), i.trace, i.reg)
             ELSE AfterImage(view, i,
                             run_factors_model(to_dataclass(data), i.reg, fake, dir, ofac),
                             w_img, w_fac)

\* warmup_models.Command.handle
WarmupImageOnly(reg, fake, dir) ==
    LET img == ImageModel(reg, fake, dir)
    IN  IF ~img.ok
        THEN ViewDone(Response("raised", img.exc, NoResult, {}), <<"image_model">>, img.reg)
        ELSE ViewDone(Response("returned", "none", NoResult, {}), <<"image_model">>, img.reg)
Warmup(reg, fake, dir) ==
    LET img == ImageModel(reg, fake, dir)
    IN  IF ~img.ok
        THEN ViewDone(Response("raised", img.exc, NoResult, {}), <<"image_model">>, img.reg)
        ELSE LET fac == RiskModel(img.reg, fake, dir)
             IN  IF ~fac.ok
                 THEN ViewDone(Response("raised", fac.exc, NoResult, {}),
                               <<"image_model", "risk_model">>, fac.reg)
                 ELSE ViewDone(Response("returned", "none", NoResult, {}),
                               <<"image_model", "risk_model">>, fac.reg)


----------------------------------------------------------------------------
(* Inputs *)

\* An uploaded image, by what the code can observe of it: no file at all, a
\* file PIL does not recognise, a file that passes ImageField's verify()
\* and fails to decode, or an image with the mean of its preprocessed
\* tensor (in ticks).
Images ==
    {[kind |-> k, mean |-> 0] : k \in {"absent", "not_image", "undecodable"}}
        \cup {[kind |-> "ok", mean |-> m] : m \in {0 - 2 * Ticks, 3}}

\* submitted form data: nothing optional filled in, everything filled in
BlankData ==
    [age |-> NoneV, first_degree_relative |-> NoneV, onset_age_relative |-> NoneV,
     brca1 |-> FALSE, brca2 |-> FALSE, menarche_age |-> NoneV,
     menopause_age |-> NoneV, parity |-> NoneV, hrt |-> Some(0), bmi |-> NoneV,
     alcohol_units_per_week |-> NoneV, smoking_status |-> Some(0),
     activity_hours_per_week |-> NoneV]
FullData ==
    [age |-> NoneV, first_degree_relative |-> NoneV, onset_age_relative |-> NoneV,
     brca1 |-> FALSE, brca2 |-> TRUE, menarche_age |-> Some(12 * Ticks),
     menopause_age |-> Some(50 * Ticks + 1), parity |-> Some(2 * Ticks),
     hrt |-> Some(1), bmi |-> Some(28 * Ticks + 2),
     alcohol_units_per_week |-> Some(4 * Ticks), smoking_status |-> Some(2),
     activity_hours_per_week |-> Some(3 * Ticks)]
BadChoiceData == [BlankData EXCEPT !.hrt = Some(3)]

WithRequired(base, a, f, o) ==
    [base EXCEPT !.age = a, !.first_degree_relative = f, !.onset_age_relative = o]
FormInputs ==
    {WithRequired(BlankData, a, f, o) :
        a \in {NoneV, Some(52 * Ticks + 1), Some(130 * Ticks)},
        f \in {NoneV, Some(0), Some(1), Some(2)},
        o \in {NoneV, Some(45 * Ticks), Some(200 * Ticks)}}
    \cup
    {WithRequired(base, Some(52 * Ticks), Some(f), o) :
        base \in {FullData, BadChoiceData},
        f \in FDR_CHOICES,
        o \in {NoneV, Some(45 * Ticks)}}

\* RiskFactors records that pass validation, for the vectorizer
RiskFactorsRecords ==
    {rf \in [age : {52 * Ticks, 52 * Ticks + 1},
             first_degree_relative : {0, 1},
             onset_age_relative : {NoneV, Some(45 * Ticks + 1)},
             brca1 : {0, 1},
             brca2 : {0, 1},
             menarche_age : {NoneV, Some(12 * Ticks)},
             menopause_age : {NoneV, Some(50 * Ticks + 3)},
             parity : {NoneV, Some(0), Some(2 * Ticks)},
             hrt : {0, 2},
             bmi : {NoneV, Some(28 * Ticks + 2)},
             alcohol_units_per_week : {NoneV, Some(4 * Ticks)},
             smoking_status : SMOKE_CHOICES,
             activity_hours_per_week : {NoneV, Some(3 * Ticks)}] :
        rf.first_degree_relative = 1 => ~IsNone(rf.onset_age_relative)}

\* configured weights and probabilities handed to ensemble, in tenths
WeightVals == {(WOne \div 10) * k : k \in (0 - 2)..MaxWeightTenths}
ProbVals == {(POne \div 10) * k : k \in (0 - 1)..MaxProbTenths}

----------------------------------------------------------------------------
(* State *)

MkResult(status, exc, h, body, errors, vec) ==
    [status |-> status, exc |-> exc, ret |-> h, body |-> body, errors |-> errors,
     vec |-> vec]
NoCall == MkResult("none", "none", None, NoResult, {}, <<>>)
OfResolver(r) ==
    MkResult(IF r.ok THEN "returned" ELSE "raised", r.exc, r.ret, NoResult, {}, <<>>)
OfView(v) ==
    MkResult(v.response.status, v.response.exc, None, v.response.body,
             v.response.errors, <<>>)

NoArgs == [none |-> TRUE]
ViewNames == {"PredictView.post", "api_predict"}

\* ModelRegistry right after the module is imported, and no call made yet
InitRegistry ==
    /\ _image_model = None
    /\ _risk_model = None
    /\ built = [image |-> 0, risk |-> 0]
InitCall ==
    /\ op = "import"
    /\ args = NoArgs
    /\ trace = <<>>
    /\ result = NoCall
InitThreads ==
    /\ pc = [t \in Threads |-> "idle"]
    /\ ret = [t \in Threads |-> [cap |-> "none", exc |-> "none", h |-> None]]
DefaultWeights ==
    /\ IMG_WEIGHT = DefaultImgWeight
    /\ FACT_WEIGHT = DefaultFactWeight

----------------------------------------------------------------------------
(* Operations, each call run to completion *)

\* a caller (a view, the warm-up command, a test) calls ModelRegistry.image_model()
CallImageModel ==
    LET r == ImageModel(Registry, ENABLE_FAKE_MODELS, model_dir)
    IN  /\ SetRegistry(r.reg)
        /\ op' = "image_model"
        /\ args' = NoArgs
        /\ trace' = <<"image_model">>
        /\ result' = OfResolver(r)
        /\ UNCHANGED <<settingsVars, threadVars>>

\* a caller calls ModelRegistry.risk_model()
CallRiskModel ==
    LET r == RiskModel(Registry, ENABLE_FAKE_MODELS, model_dir)
    IN  /\ SetRegistry(r.reg)
        /\ op' = "risk_model"
        /\ args' = NoArgs
        /\ trace' = <<"risk_model">>
        /\ result' = OfResolver(r)
        /\ UNCHANGED <<settingsVars, threadVars>>

\* manage.py warmup_models
RunWarmup ==
    LET v == Warmup(Registry, ENABLE_FAKE_MODELS, model_dir)
    IN  /\ SetRegistry(v.reg)
        /\ op' = "warmup_models"
        /\ args' = NoArgs
        /\ trace' = v.trace
        /\ result' = OfView(v)
        /\ UNCHANGED <<settingsVars, threadVars>>

\* the operator changes a file of MODEL_DIR between two calls
DeployFile ==
    \E name \in FileNames, status \in FileStatus :
        /\ model_dir[name] # status
        /\ model_dir' = [model_dir EXCEPT ![name] = status]
        /\ op' = "deploy_file"
        /\ args' = NoArgs
        /\ trace' = <<>>
        /\ result' = NoCall
        /\ UNCHANGED <<ENABLE_FAKE_MODELS, IMG_WEIGHT, FACT_WEIGHT, registryVars,
                       threadVars>>

\* settings.ENABLE_FAKE_MODELS is overridden between two calls (the
\* resolvers read it at every call that finds the handle unset)
OverrideFakeModels ==
    /\ ENABLE_FAKE_MODELS' = ~ENABLE_FAKE_MODELS
    /\ op' = "override_settings"
    /\ args' = NoArgs
    /\ trace' = <<>>
    /\ result' = NoCall
    /\ UNCHANGED <<model_dir, IMG_WEIGHT, FACT_WEIGHT, registryVars, threadVars>>

\* one request to a view, the response to the one before having been sent
Request(view) ==
    /\ op \notin ViewNames
    /\ \E image \in Images, data \in FormInputs, oimg \in TrainedOutcomes,
       ofac \in TrainedOutcomes :
        LET v == View(view, image, data, Registry, ENABLE_FAKE_MODELS, model_dir,
                      IMG_WEIGHT, FACT_WEIGHT, oimg, ofac)
        IN  /\ SetRegistry(v.reg)
            /\ op' = view
            /\ args' = [image |-> image, data |-> data]
            /\ trace' = v.trace
            /\ result' = OfView(v)
            /\ UNCHANGED <<settingsVars, threadVars>>

PredictViewPost == Request("PredictView.post")
ApiPredict == Request("api_predict")

\* the response (or the error page of the exception) goes out and the
\* request's objects are dropped
SendResponse ==
    /\ op \in ViewNames
    /\ op' = "response_sent"
    /\ args' = NoArgs
    /\ trace' = <<>>
    /\ result' = NoCall
    /\ UNCHANGED <<settingsVars, registryVars, threadVars>>

\* a direct call of ensemble(p_img, p_factors), the two being in args
CallEnsemble ==
    /\ op = "probabilities"
    /\ op' = "ensemble"
    /\ trace' = <<"ensemble">>
    /\ result' = MkResult("returned", "none", None,
                          ensemble(args.p_img, args.p_factors, IMG_WEIGHT, FACT_WEIGHT),
                          {}, <<>>)
    /\ UNCHANGED <<args, settingsVars, registryVars, threadVars>>

\* a direct call of risk_factors_to_vector(rf), rf being the record in args
CallVector ==
    /\ op = "RiskFactors"
    /\ op' = "risk_factors_to_vector"
    /\ trace' = <<"risk_factors_to_vector">>
    /\ result' = MkResult("returned", "none", None, NoResult, {},
                          risk_factors_to_vector(args.rf))
    /\ UNCHANGED <<args, settingsVars, registryVars, threadVars>>

----------------------------------------------------------------------------
(* The registry under threads: a resolver call is the check of the handle, *)
(* then, when it was unset, the construction and the assignment.  Another  *)
(* thread may run between the two.                                         *)

Finished(cap, r) == [cap |-> cap, exc |-> r.exc, h |-> r.ret]

\* image_model line 69 in thread t
ThreadCheckImage(t) ==
    /\ pc[t] = "idle"
    /\ IF ImageModelCached(Registry)
       THEN /\ ret' = [ret EXCEPT ![t] = Finished("image", Returned(_image_model, Registry))]
            /\ pc' = pc
       ELSE /\ pc' = [pc EXCEPT ![t] = "image_construct"]
            /\ ret' = ret
    /\ UNCHANGED <<settingsVars, registryVars, callVars>>

\* image_model lines 72-126 in thread t
ThreadConstructImage(t) ==
    /\ pc[t] = "image_construct"
    /\ LET r == ImageModelConstruct(Registry, ENABLE_FAKE_MODELS, model_dir)
       IN  /\ SetRegistry(r.reg)
           /\ ret' = [ret EXCEPT ![t] = Finished("image", r)]
    /\ pc' = [pc EXCEPT ![t] = "idle"]
    /\ UNCHANGED <<settingsVars, callVars>>

\* risk_model line 131 in thread t
ThreadCheckRisk(t) ==
    /\ pc[t] = "idle"
    /\ IF RiskModelCached(Registry)
       THEN /\ ret' = [ret EXCEPT ![t] = Finished("risk", Returned(_risk_model, Registry))]
            /\ pc' = pc
       ELSE /\ pc' = [pc EXCEPT ![t] = "risk_construct"]
            /\ ret' = ret
    /\ UNCHANGED <<settingsVars, registryVars, callVars>>

\* risk_model lines 134-151 in thread t
ThreadConstructRisk(t) ==
    /\ pc[t] = "risk_construct"
    /\ LET r == RiskModelConstruct(Registry, ENABLE_FAKE_MODELS, model_dir)
       IN  /\ SetRegistry(r.reg)
           /\ ret' = [ret EXCEPT ![t] = Finished("risk", r)]
    /\ pc' = [pc EXCEPT ![t] = "idle"]
    /\ UNCHANGED <<settingsVars, callVars>>

----------------------------------------------------------------------------
(* Specifications *)

EmptyDir == [n \in FileNames |-> "absent"]

\* directories with at most the first candidate and the risk model in them
SmallDirs ==
    {d \in [FileNames -> FileStatus] :
        \A i \in 2..Len(IMAGE_WEIGHT_CANDIDATES) : d[IMAGE_WEIGHT_CANDIDATES[i]] = "absent"}

\* the registry, called by one caller at a time
Init ==
    /\ ENABLE_FAKE_MODELS \in BOOLEAN
    /\ model_dir \in [FileNames -> FileStatus]
    /\ DefaultWeights
    /\ InitRegistry
    /\ InitCall
    /\ InitThreads
Next ==
    \/ CallImageModel
    \/ CallRiskModel
    \/ RunWarmup
    \/ DeployFile
Spec == Init /\ [][Next]_vars

\* the registry, called by one caller at a time, the settings being
\* overridden at run time as well
NextRetry ==
    \/ CallImageModel
    \/ CallRiskModel
    \/ RunWarmup
    \/ DeployFile
    \/ OverrideFakeModels
SpecRetry == Init /\ [][NextRetry]_vars

\* the registry, called by threads
InitThreaded ==
    /\ ENABLE_FAKE_MODELS \in BOOLEAN
    /\ model_dir \in SmallDirs
    /\ DefaultWeights
    /\ InitRegistry
    /\ InitCall
    /\ InitThreads
NextThreaded ==
    \E t \in Threads :
        \/ ThreadCheckImage(t)
        \/ ThreadConstructImage(t)
        \/ ThreadCheckRisk(t)
        \/ ThreadConstructRisk(t)
SpecThreads == InitThreaded /\ [][NextThreaded]_vars

\* the views, one request at a time
InitViews ==
    /\ ENABLE_FAKE_MODELS \in BOOLEAN
    /\ model_dir \in SmallDirs
    /\ ENABLE_FAKE_MODELS => model_dir = EmptyDir
    /\ DefaultWeights
    /\ InitRegistry
    /\ InitCall
    /\ InitThreads
NextViews ==
    \/ PredictViewPost
    \/ ApiPredict
    \/ SendResponse
    \/ RunWarmup
SpecViews == InitViews /\ [][NextViews]_vars

\* ensemble as a function of its arguments and the configured weights
InitEnsemble ==
    /\ ENABLE_FAKE_MODELS = TRUE
    /\ model_dir = EmptyDir
    /\ IMG_WEIGHT \in WeightVals
    /\ FACT_WEIGHT \in WeightVals
    /\ InitRegistry
    /\ op = "probabilities"
    /\ args \in [p_img : ProbVals, p_factors : ProbVals]
    /\ trace = <<>>
    /\ result = NoCall
    /\ InitThreads
NextEnsemble == CallEnsemble
SpecEnsemble == InitEnsemble /\ [][NextEnsemble]_vars

\* risk_factors_to_vector as a function of the record
InitVector ==
    /\ ENABLE_FAKE_MODELS = TRUE
    /\ model_dir = EmptyDir
    /\ DefaultWeights
    /\ InitRegistry
    /\ op = "RiskFactors"
    /\ args \in [rf : RiskFactorsRecords]
    /\ trace = <<>>
    /\ result = NoCall
    /\ InitThreads
NextVector == CallVector
SpecVector == InitVector /\ [][NextVector]_vars

\* the element values of the tensors and vectors given to the synthetic
\* models: negative, zero, small, beyond one period of the remainder, and
\* the largest finite value with either sign
ElemVals ==
    {0 - FloatMax, 0 - (150 * Ticks), 0 - 1, 0, 1, 60 * Ticks, 250 * Ticks, FloatMax}
Tensors == [1..TensorLen -> ElemVals]

\* a direct call of FakeImageModel().predict_proba(x), x being in args
CallFakeImagePredict ==
    /\ op = "tensor"
    /\ op' = "FakeImageModel.predict_proba"
    /\ trace' = <<"image_predict_proba">>
    /\ result' = MkResult("returned", "none", None, NoResult, {},
                          <<FakeImageModelPredictProba(args.x)>>)
    /\ UNCHANGED <<args, settingsVars, registryVars, threadVars>>

\* a direct call of FakeRiskModel().predict_proba(x), x being in args
CallFakeRiskPredict ==
    /\ op = "tensor"
    /\ op' = "FakeRiskModel.predict_proba"
    /\ trace' = <<"risk_predict_proba">>
    /\ result' = MkResult("returned", "none", None, NoResult, {},
                          <<FakeRiskModelPredictProba(args.x)>>)
    /\ UNCHANGED <<args, settingsVars, registryVars, threadVars>>

\* the synthetic models as functions of their input
InitFake ==
    /\ ENABLE_FAKE_MODELS = TRUE
    /\ model_dir = EmptyDir
    /\ DefaultWeights
    /\ InitRegistry
    /\ op = "tensor"
    /\ args \in [x : Tensors]
    /\ trace = <<>>
    /\ result = NoCall
    /\ InitThreads
NextFake ==
    \/ CallFakeImagePredict
    \/ CallFakeRiskPredict
SpecFake == InitFake /\ [][NextFake]_vars


----------------------------------------------------------------------------
(* Claims *)

InUnit(p) == 0 <= p /\ p <= POne

\* C1: callers coming one after the other, each capability is constructed
\* at most once, by the first call that succeeds; every call that returns
\* gives back the handle the registry holds, and a handle, once set, is
\* never replaced or cleared (and nothing is constructed again).
C1_SingleInstance ==
    /\ [](/\ built.image <= 1
          /\ built.risk <= 1
          /\ (_image_model # None) <=> (built.image = 1)
          /\ (_risk_model # None) <=> (built.risk = 1)
          /\ (op = "image_model" /\ result.status = "returned")
                => (result.ret = _image_model /\ _image_model # None)
          /\ (op = "risk_model" /\ result.status = "returned")
                => (result.ret = _risk_model /\ _risk_model # None))
    /\ [][/\ _image_model # None
             => (_image_model' = _image_model /\ built'.image = built.image)
          /\ _risk_model # None
             => (_risk_model' = _risk_model /\ built'.risk = built.risk)]_vars

\* the image model was built first, the risk model second, and a later
\* image_model() call returned the first instance
C1_Witness ==
    /\ op = "image_model"
    /\ result.status = "returned"
    /\ result.ret.id = 1
    /\ _risk_model.id = 2

\* C2 (as claimed): with threads racing on an unset handle, at most one
\* construction is assigned per capability and all callers of a resolver
\* observe one instance.
C2_GuardedConstruction ==
    /\ built.image <= 1
    /\ built.risk <= 1
    /\ \A t1, t2 \in Threads :
          (ret[t1].cap = ret[t2].cap /\ ret[t1].exc = "none" /\ ret[t2].exc = "none")
              => ret[t1].h = ret[t2].h

C4_EnsembleClamped ==
    op = "ensemble"
        => (0 <= result.body.p_ensemble /\ result.body.p_ensemble <= WOne * POne)

\* C5 (as claimed): flag off, risk model file absent, handle unset: the
\* risk_model() call raises ModelNotFoundError; nothing is raised by the
\* import of the module.
C5_ModelNotFoundError ==
    /\ op = "import" => (result.status = "none" /\ _risk_model = None)
    /\ (op = "risk_model" /\ ~ENABLE_FAKE_MODELS /\ _risk_model = None
            /\ ~Exists(model_dir, RISK_MODEL_FILENAME))
        => (result.status = "raised" /\ result.exc = "ModelNotFoundError")

\* C5 (amended): flag off, risk model file absent, handle unset: the
\* risk_model() call raises the built-in FileNotFoundError and leaves the
\* handle unset; nothing is raised by the import of the module.
C5_FileNotFoundError ==
    /\ [](op = "import" => (result.status = "none" /\ _risk_model = None))
    /\ [][(op' = "risk_model" /\ ~ENABLE_FAKE_MODELS /\ _risk_model = None
              /\ ~Exists(model_dir, RISK_MODEL_FILENAME))
            => /\ result'.status = "raised"
               /\ result'.exc = "FileNotFoundError"
               /\ _risk_model' = None]_vars

C5_Witness ==
    /\ op = "risk_model"
    /\ ~ENABLE_FAKE_MODELS
    /\ ~Exists(model_dir, RISK_MODEL_FILENAME)
    /\ result.status = "raised"
    /\ _risk_model = None


\* the sub-steps of one inference, in the order the views call them
FullTrace ==
    <<"load_image_to_array", "preprocess_image_for_densenet", "image_model",
      "image_predict_proba", "risk_factors_to_vector", "risk_model",
      "risk_predict_proba", "ensemble">>
IsPrefix(s, t) == Len(s) <= Len(t) /\ \A i \in 1..Len(s) : s[i] = t[i]
Called(step) == \E i \in 1..Len(trace) : trace[i] = step
\* the exceptions a sub-step can raise
ExceptionsOf(step) ==
    CASE step = "load_image_to_array" -> {"image_decode_error"}
      [] step = "image_model" -> {"load_weights_error"}
      [] step = "image_predict_proba" -> {"image_predict_error"}
      [] step = "risk_model" -> {"FileNotFoundError", "joblib_load_error"}
      [] step = "risk_predict_proba" -> {"risk_predict_error"}
      [] OTHER -> {}
FormsValid == ImageFormIsValid(args.image) /\ RiskFormIsValid(args.data)
Emitted == result.status \in {"200", "page_result"}

\* C6: in a request that reaches the inference, the sub-steps are called in
\* order up to the first one that fails; its exception leaves the view,
\* ensemble is not called and no result is emitted.  A result is emitted
\* only when every sub-step was called and succeeded.  An image that does
\* not decode fails the request at the first sub-step whatever would fail
\* later; a risk model that cannot be resolved never yields a result.
C6_FirstFailurePropagates ==
    (op \in ViewNames /\ FormsValid)
        => /\ IsPrefix(trace, FullTrace)
           /\ trace # <<>>
           /\ result.status \in {"raised", "200", "page_result"}
           /\ result.status = "raised"
                => /\ result.exc \in ExceptionsOf(trace[Len(trace)])
                   /\ ~Called("ensemble")
                   /\ result.body = NoResult
           /\ Emitted
                => /\ trace = FullTrace
                   /\ result.exc = "none"
                   /\ result.body.img_weight = IMG_WEIGHT
           /\ args.image.kind = "undecodable"
                => /\ result.status = "raised"
                   /\ result.exc = "image_decode_error"
                   /\ trace = <<"load_image_to_array">>
           /\ (~ENABLE_FAKE_MODELS /\ _risk_model = None)
                => result.status = "raised"
           /\ (~ENABLE_FAKE_MODELS /\ _image_model = None /\ args.image.kind = "ok")
                => (result.status = "raised" /\ result.exc = "load_weights_error")

\* the image probability was computed, the risk model then failed to
\* resolve, and nothing was emitted
C6_Witness ==
    /\ op = "api_predict"
    /\ FormsValid
    /\ Called("image_predict_proba")
    /\ result.status = "raised"
    /\ result.exc = "FileNotFoundError"
    /\ result.body = NoResult

\* C7: flag off and no candidate weight file in MODEL_DIR: image_model()
\* returns the trained variant, which is the handle the registry holds; when
\* the handle was unset, the call builds the variant with the freshly
\* initialised head and stores it.
C7_FreshHeadFallback ==
    [][(op' = "image_model" /\ ~ENABLE_FAKE_MODELS /\ WeightsPath(model_dir) = 0)
        => /\ result'.status = "returned"
           /\ result'.ret = _image_model'
           /\ _image_model'.kind = "_WrapKerasSoftmax"
           /\ _image_model = None
                => /\ _image_model'.weights = "fresh_head"
                   /\ built'.image = built.image + 1
           /\ _image_model # None => _image_model' = _image_model]_vars

C7_Witness ==
    /\ op = "image_model"
    /\ ~ENABLE_FAKE_MODELS
    /\ WeightsPath(model_dir) = 0
    /\ result.status = "returned"
    /\ result.ret.weights = "fresh_head"

\* C8: a record with first_degree_relative = 1 and no onset_age_relative is
\* rejected with an error on onset_age_relative; a request whose image form
\* or risk-factor form is invalid gets the error page or the 400 and no
\* sub-step of the inference is called; so the inference never runs on such
\* a record.
C8_InvalidNeverReachesCore ==
    op \in ViewNames
        => /\ (args.data.first_degree_relative = Some(1)
                  /\ IsNone(args.data.onset_age_relative))
                => /\ "onset_age_relative" \in result.errors
                   /\ trace = <<>>
           /\ (\/ args.image.kind \in {"absent", "not_image"}
               \/ FieldErrors(args.data) # {}
               \/ result.errors # {})
                => /\ trace = <<>>
                   /\ result.status = (IF op = "api_predict" THEN "400" ELSE "page_errors")
                   /\ result.body = NoResult
                   /\ _image_model = None => built.image = 0
           /\ trace # <<>>
                => /\ result.errors = {}
                   /\ args.image.kind \in {"ok", "undecodable"}

\* everything else in the request is valid
C8_Witness ==
    /\ op = "api_predict"
    /\ args.image.kind = "ok"
    /\ args.data.age = Some(52 * Ticks)
    /\ args.data.first_degree_relative = Some(1)
    /\ IsNone(args.data.onset_age_relative)
    /\ result.status = "400"
    /\ result.errors = {"onset_age_relative"}

\* the value of a field of a RiskFactors record as a number, None being 0
FieldValue(rf, f) ==
    IF f \in IntFields THEN Units(rf[f])
    ELSE IF f = "age" THEN rf.age
    ELSE IF IsNone(rf[f]) THEN 0 ELSE rf[f][1]
Abs(x) == IF x < 0 THEN 0 - x ELSE x

\* C9 (as claimed): the vector has 13 elements in the documented order, each
\* equal to its field, an absent optional field being 0.0.
C9_FieldsUnchanged ==
    op = "risk_factors_to_vector"
        => /\ Len(result.vec) = 13
           /\ \A i \in 1..13 : result.vec[i] = FieldValue(args.rf, FeatureOrder[i])

\* C9 (amended): the vector has 13 elements in the documented order, each
\* the float32 value nearest to its field: equal to the field when float32
\* represents it (every flag and code, every absent field as 0.0), and
\* within half a float32 step of it otherwise.
C9_FieldsAsFloat32 ==
    op = "risk_factors_to_vector"
        => /\ Len(result.vec) = 13
           /\ \A i \in 1..13 :
                LET v == FieldValue(args.rf, FeatureOrder[i])
                    x == result.vec[i]
                IN  /\ x % F32Step = 0
                    /\ 2 * Abs(x - v) <= F32Step
                    /\ v % F32Step = 0 => x = v
                    /\ FeatureOrder[i] \in IntFields => x = Units(args.rf[FeatureOrder[i]])
                    /\ (FeatureOrder[i] \in OptionalFields /\ IsNone(args.rf[FeatureOrder[i]]))
                          => x = 0

\* a record with an age float32 does not represent, an absent field, present ones
C9_Witness ==
    /\ op = "risk_factors_to_vector"
    /\ args.rf.age % F32Step # 0
    /\ IsNone(args.rf.menarche_age)
    /\ ~IsNone(args.rf.bmi)
    /\ args.rf.hrt = 2
    /\ result.vec[9] = Units(2)

\* C10: with configured weights (0.0, 0.0), ensemble returns, for every
\* p_img, p_factors in [0,1], a result whose two weights and whose
\* p_ensemble are 0.
C10_ZeroWeights ==
    (op = "ensemble" /\ IMG_WEIGHT = 0 /\ FACT_WEIGHT = 0
        /\ InUnit(args.p_img) /\ InUnit(args.p_factors))
        => /\ result.status = "returned"
           /\ result.body.img_weight = 0
           /\ result.body.factors_weight = 0
           /\ result.body.p_ensemble = 0
           /\ result.body.p_img = args.p_img
           /\ result.body.p_factors = args.p_factors

C10_Witness ==
    /\ op = "ensemble"
    /\ IMG_WEIGHT = 0
    /\ FACT_WEIGHT = 0
    /\ args.p_img = POne
    /\ args.p_factors = POne \div 2
    /\ result.body.p_ensemble = 0

----------------------------------------------------------------------------
(* C11: negative configured weights *)

\* a configured weight as ensemble would use it were negatives clamped
ClampedWeight(w) == IF w < 0 THEN 0 ELSE w

\* C11 (as claimed): a negative configured weight is clamped to zero before
\* blending: neither reported weight is negative, and p_ensemble is the
\* blend under the clamped weights.
C11_NegativeClamped ==
    op = "ensemble"
        => /\ result.body.img_weight >= 0
           /\ result.body.factors_weight >= 0
           /\ result.body.p_ensemble =
                  ClampedWeight(IMG_WEIGHT) * args.p_img
                    + ClampedWeight(FACT_WEIGHT) * args.p_factors

\* C11 (amended): ensemble uses the configured weights as read, negative
\* ones included: each reported weight is the configured one, it is
\* negative exactly when the configured one is, and p_ensemble is
\* IMG_WEIGHT * p_img + FACT_WEIGHT * p_factors, so a negative weight
\* subtracts from the blend.
C11_NegativeAsConfigured ==
    op = "ensemble"
        => /\ (result.body.img_weight < 0) <=> (IMG_WEIGHT < 0)
           /\ (result.body.factors_weight < 0) <=> (FACT_WEIGHT < 0)
           /\ (IMG_WEIGHT < 0 \/ FACT_WEIGHT < 0)
                => /\ result.body.img_weight = IMG_WEIGHT
                   /\ result.body.factors_weight = FACT_WEIGHT
                   /\ result.body.p_ensemble =
                          IMG_WEIGHT * args.p_img + FACT_WEIGHT * args.p_factors

\* a negative image weight, reported negative and pulling p_ensemble below
\* the factors' share
C11_Witness ==
    /\ op = "ensemble"
    /\ IMG_WEIGHT = 0 - (WOne \div 10)
    /\ FACT_WEIGHT = DefaultFactWeight
    /\ args.p_img = POne
    /\ args.p_factors = POne \div 2
    /\ result.body.img_weight < 0
    /\ result.body.p_ensemble < FACT_WEIGHT * args.p_factors

----------------------------------------------------------------------------
(* C12: the warm-up command *)

BothHandlesSet == _image_model # None /\ _risk_model # None

\* C12: when warmup_models completes without an exception both handles are
\* set; once both are set no later step (a request, another warm-up)
\* constructs a model or replaces a handle; and the command changes nothing
\* but the two handles: the settings are left alone, and a handle that was
\* already set is kept.
C12_WarmupSetsBoth ==
    /\ []((op = "warmup_models" /\ result.status = "returned") => BothHandlesSet)
    /\ [][BothHandlesSet => registryVars' = registryVars]_vars
    /\ [][op' = "warmup_models"
            => /\ settingsVars' = settingsVars
               /\ threadVars' = threadVars
               /\ _image_model # None => _image_model' = _image_model
               /\ _risk_model # None => _risk_model' = _risk_model]_vars

\* the command has run on an empty registry with the flag off and built
\* both trained models
C12_Witness ==
    /\ op = "warmup_models"
    /\ result.status = "returned"
    /\ ~ENABLE_FAKE_MODELS
    /\ BothHandlesSet
    /\ _image_model.kind = "_WrapKerasSoftmax"
    /\ _risk_model.kind = "_WrapSklearnBinary"
    /\ built = [image |-> 1, risk |-> 1]

----------------------------------------------------------------------------
(* C13: the order of the steps of one inference *)

\* every occurrence of step b in the trace has an occurrence of a before it
Before(a, b) ==
    \A j \in 1..Len(trace) :
        trace[j] = b => \E i \in 1..(j - 1) : trace[i] = a

\* C13: in PredictView.post and in api_predict the image is normalised
\* before the image model predicts, the risk factors are vectorised before
\* the risk model predicts, and both predictions are made before ensemble
\* combines them; a request that emits a result has made all five steps.
C13_StepOrder ==
    op \in ViewNames
        => /\ Before("preprocess_image_for_densenet", "image_predict_proba")
           /\ Before("risk_factors_to_vector", "risk_predict_proba")
           /\ Before("image_predict_proba", "ensemble")
           /\ Before("risk_predict_proba", "ensemble")
           /\ Emitted
                => /\ Called("preprocess_image_for_densenet")
                   /\ Called("risk_factors_to_vector")
                   /\ Called("ensemble")

\* PredictView.post has rendered a result after a complete inference
C13_Witness ==
    /\ op = "PredictView.post"
    /\ result.status = "page_result"
    /\ Called("image_predict_proba")
    /\ Called("risk_predict_proba")
    /\ trace[Len(trace)] = "ensemble"

----------------------------------------------------------------------------
(* C14: the range of the synthetic models *)

\* a floating-point value that is a probability
InUnitF(p) == p.kind = "finite" /\ InUnit(p.v)

\* C14 (as claimed): for every input tensor or vector, negative and very
\* large element values included, FakeImageModel.predict_proba and
\* FakeRiskModel.predict_proba return a value in [0, 1].
C14_FakeInUnit ==
    op \in {"FakeImageModel.predict_proba", "FakeRiskModel.predict_proba"}
        => InUnitF(result.vec[1])

----------------------------------------------------------------------------
(* C15: a failed risk_model() call *)

\* C15: a risk_model() call that raises leaves the registry as it was: the
\* risk handle stays unset, the image handle is not touched and nothing is
\* counted as constructed.  Every risk_model() call that finds the handle
\* unset attempts the construction again: it succeeds, sets the handle and
\* returns it when the flag is on or the model file is there to load, and
\* with the flag off it raises FileNotFoundError as long as the file is
\* missing.
C15_FailedCallRetries ==
    /\ [][(op' = "risk_model" /\ result'.status = "raised")
            => /\ registryVars' = registryVars
               /\ _risk_model' = None]_vars
    /\ [][(op' = "risk_model" /\ _risk_model = None)
            => /\ _image_model' = _image_model
               /\ IF ENABLE_FAKE_MODELS \/ model_dir[RISK_MODEL_FILENAME] = "ok"
                  THEN /\ result'.status = "returned"
                       /\ _risk_model' # None
                       /\ result'.ret = _risk_model'
                  ELSE /\ result'.status = "raised"
                       /\ _risk_model' = None
                       /\ ~Exists(model_dir, RISK_MODEL_FILENAME)
                            => result'.exc = "FileNotFoundError"]_vars

\* the image handle was set, then risk_model() failed on the missing file:
\* the image handle is still there and the risk handle is unset
C15_Witness ==
    /\ op = "risk_model"
    /\ result.status = "raised"
    /\ result.exc = "FileNotFoundError"
    /\ _image_model # None
    /\ _risk_model = None
    /\ built = [image |-> 1, risk |-> 0]

====
